---- MODULE Spec2Model ----
(***************************************************************************)
(* ordsearch: OrderedCollection<T>, an Eytzinger-ordered array built from  *)
(* a sorted iterator (eytzinger_walk / from_sorted_iter) and searched by   *)
(* the branch-free descent of find_gte.  The model is the build with the   *)
(* `nightly` feature on (mask and prefetch present); without the feature   *)
(* the same code runs minus mask and prefetch.                             *)
(*                                                                         *)
(* Arrays are 0-based in the source and sequences 1-based here: element k  *)
(* of a Vec is At(s, k) == s[k + 1].                                       *)
(***************************************************************************)
EXTENDS Integers, Sequences, FiniteSets, TLC

VARIABLES
    src,        \* the caller's Vec<T> handed to a constructor
    phase,      \* "new" | "walk" | "built"
    iter,       \* the sequence from_sorted_iter iterates over
    taken,      \* how many elements iter.next() has handed out
    v,          \* the Vec's buffer (capacity slots), Uninit where never written
    vlen,       \* the Vec's length field
    stack,      \* the eytzinger_walk activations, innermost last
    wlog,       \* the positions written by eytzinger_walk, in order
    panicked,   \* an unwrap() on None happened
    items,      \* OrderedCollection.items
    mask,       \* OrderedCollection.mask
    elemSize,   \* mem::size_of::<T>()
    callers,    \* the threads that share the built collection
    pc,         \* per caller: "idle" | "loop" | "done"
    x,          \* per caller: find_gte's argument
    i,          \* per caller: find_gte's cursor
    pf,         \* per caller: the element offsets handed to prefetch, in order
    trail,      \* per caller: the nodes compared and the branch taken, in order
    ret,        \* per caller: find_gte's return value
    oob         \* an unchecked read at an index >= items.len() happened

vars == <<src, phase, iter, taken, v, vlen, stack, wlog, panicked, items, mask,
          elemSize, callers, pc, x, i, pf, trail, ret, oob>>

buildVars == <<src, phase, iter, taken, v, vlen, stack, wlog, panicked, items, mask>>
callVars == <<pc, x, i, pf, trail, ret, oob>>

----------------------------------------------------------------------------
(* Bounds of the model *)

MaxN == 5        \* longest input vector
MaxVal == 3      \* element values are 1..MaxVal
MaxNConc == 3    \* longest input vector when two callers share the collection
MaxSortedN == 9  \* longest input vector of the sorted-input specification
MaxNLive == 4    \* longest input vector of the specification with fairness

(* Program constants *)

CacheLine == 64  \* the 64 of `64 / mem::size_of::<T>()`
UsizeBits == 16  \* width of usize (the narrowest Rust target; indices stay far below)
Uninit == 0      \* a slot of the buffer that Vec::with_capacity left unwritten

Vals == 1..MaxVal
Queries == 0..(MaxVal + 1)
ElemSizes == {1, 8, 64, 128}
Threads == {"t1", "t2"}

At(s, k) == s[k + 1]

RECURSIVE Pow2(_)
Pow2(k) == IF k = 0 THEN 1 ELSE 2 * Pow2(k - 1)

UsizeMod == Pow2(UsizeBits)

SeqsUpTo(len) == UNION {[1..k -> Vals] : k \in 0..len}

None == [some |-> FALSE, idx |-> 0, val |-> 0]
Some(k, e) == [some |-> TRUE, idx |-> k, val |-> e]

----------------------------------------------------------------------------
(* Construction: From, from_sorted_iter, eytzinger_walk *)

RECURSIVE Insert(_, _)
Insert(s, e) ==
    IF s = <<>> THEN <<e>>
    ELSE IF e <= Head(s) THEN <<e>> \o s
    ELSE <<Head(s)>> \o Insert(Tail(s), e)

\* v.sort_unstable(): the elements in non-decreasing order
RECURSIVE sort_unstable(_)
sort_unstable(s) ==
    IF s = <<>> THEN <<>> ELSE Insert(sort_unstable(Tail(s)), Head(s))

\* Vec::with_capacity(n): n unwritten slots, length 0
with_capacity(n) == [k \in 1..n |-> Uninit]

capacity(buf) == Len(buf)

\* the mask loop written `while mask < n`
RECURSIVE MaskLoop_Strict(_, _)
MaskLoop_Strict(m, n) == IF m < n THEN MaskLoop_Strict((2 * m) % UsizeMod, n) ELSE m

\* the mask loop of from_sorted_iter: start at 1, double while mask <= n
RECURSIVE MaskLoop(_, _)
MaskLoop(m, n) == IF m <= n THEN MaskLoop((2 * m) % UsizeMod, n) ELSE m

MaskOf(n) == MaskLoop(1, n) - 1

Frame(k, at) == [i |-> k, at |-> at]

Top == stack[Len(stack)]

Pop == SubSeq(stack, 1, Len(stack) - 1)

LeftChild(k) == (2 * k + 1) % UsizeMod

\* the right child written as the left one, `2 * i + 1`
RightChild_SameAsLeft(k) == (2 * k + 1) % UsizeMod

RightChild(k) == (2 * k + 2) % UsizeMod

\* the first lines of from_sorted_iter, on the iterator `it`
BeginFromSortedIter(it) ==
    /\ iter' = it
    /\ taken' = 0
    /\ v' = with_capacity(Len(it))
    /\ vlen' = 0
    /\ stack' = <<Frame(0, "enter")>>
    /\ phase' = "walk"
    /\ src' = <<>>
    /\ UNCHANGED <<wlog, panicked, items, mask, elemSize, callers>>
    /\ UNCHANGED callVars

\* impl From<Vec<T>>: sort, then from_sorted_iter
From ==
    /\ phase = "new"
    /\ BeginFromSortedIter(sort_unstable(src))

\* from_sorted_iter called directly: the input is used as given
FromSortedIter ==
    /\ phase = "new"
    /\ BeginFromSortedIter(src)

\* eytzinger_walk: `if i >= v.capacity() { return; }`
WalkReturn ==
    /\ phase = "walk" /\ stack # <<>> /\ ~panicked
    /\ Top.at = "enter"
    /\ Top.i >= capacity(v)
    /\ stack' = Pop
    /\ UNCHANGED <<src, phase, iter, taken, v, vlen, wlog, panicked, items, mask,
                   elemSize, callers>>
    /\ UNCHANGED callVars

\* eytzinger_walk: visit left child
WalkLeft ==
    /\ phase = "walk" /\ stack # <<>> /\ ~panicked
    /\ Top.at = "enter"
    /\ Top.i < capacity(v)
    /\ stack' = Pop \o <<Frame(Top.i, "put"), Frame(LeftChild(Top.i), "enter")>>
    /\ UNCHANGED <<src, phase, iter, taken, v, vlen, wlog, panicked, items, mask,
                   elemSize, callers>>
    /\ UNCHANGED callVars

\* WalkPut taking the elements from the back of the iterator
WalkPut_FromBack ==
    /\ phase = "walk" /\ stack # <<>> /\ ~panicked
    /\ Top.at = "put"
    /\ IF taken < Len(iter)
       THEN /\ v' = [v EXCEPT ![Top.i + 1] = iter[Len(iter) - taken]]
            /\ taken' = taken + 1
            /\ wlog' = Append(wlog, Top.i)
            /\ stack' = Pop \o <<Frame(Top.i, "exit"),
                                 Frame(RightChild(Top.i), "enter")>>
            /\ UNCHANGED panicked
       ELSE /\ panicked' = TRUE      \* iter.next().unwrap() on None
            /\ UNCHANGED <<v, taken, wlog, stack>>
    /\ UNCHANGED <<src, phase, iter, vlen, items, mask, elemSize, callers>>
    /\ UNCHANGED callVars

\* eytzinger_walk: put data at the root, then visit right child
WalkPut ==
    /\ phase = "walk" /\ stack # <<>> /\ ~panicked
    /\ Top.at = "put"
    /\ IF taken < Len(iter)
       THEN /\ v' = [v EXCEPT ![Top.i + 1] = iter[taken + 1]]
            /\ taken' = taken + 1
            /\ wlog' = Append(wlog, Top.i)
            /\ stack' = Pop \o <<Frame(Top.i, "exit"),
                                 Frame(RightChild(Top.i), "enter")>>
            /\ UNCHANGED panicked
       ELSE /\ panicked' = TRUE      \* iter.next().unwrap() on None
            /\ UNCHANGED <<v, taken, wlog, stack>>
    /\ UNCHANGED <<src, phase, iter, vlen, items, mask, elemSize, callers>>
    /\ UNCHANGED callVars

\* eytzinger_walk: the activation ends after its right child returned
WalkExit ==
    /\ phase = "walk" /\ stack # <<>> /\ ~panicked
    /\ Top.at = "exit"
    /\ stack' = Pop
    /\ UNCHANGED <<src, phase, iter, taken, v, vlen, wlog, panicked, items, mask,
                   elemSize, callers>>
    /\ UNCHANGED callVars

\* from_sorted_iter after the walk: set_len(n), the mask, the collection
SetLen ==
    /\ phase = "walk" /\ stack = <<>> /\ ~panicked
    /\ vlen' = Len(iter)
    /\ mask' = MaskOf(Len(iter))
    /\ items' = SubSeq(v, 1, Len(iter))
    /\ phase' = "built"
    /\ UNCHANGED <<src, iter, taken, v, stack, wlog, panicked, elemSize, callers>>
    /\ UNCHANGED callVars

----------------------------------------------------------------------------
(* Search: find_gte *)

RECURSIVE BitAnd(_, _)
BitAnd(a, b) ==
    IF a = 0 \/ b = 0 THEN 0
    ELSE (a % 2) * (b % 2) + 2 * BitAnd(a \div 2, b \div 2)

\* the `!` left out
Not_Missing(m) == m

\* !m on a usize
Not(m) == UsizeMod - 1 - m

\* usize::trailing_zeros (the bit width on 0)
RECURSIVE trailing_zeros(_)
trailing_zeros(m) ==
    IF m = 0 THEN UsizeBits
    ELSE IF m % 2 = 1 THEN 0
    ELSE 1 + trailing_zeros(m \div 2)

\* m >> s (the shift amount taken modulo the width, as a release build does)
Shr(m, s) == m \div Pow2(s % UsizeBits)

\* `let multiplier = 64 / mem::size_of::<T>();`
multiplier == CacheLine \div elemSize

\* `let offset = multiplier + multiplier / 2;`
offset == multiplier + multiplier \div 2

\* the element offset handed to prefetch at cursor k
PrefetchOffset(k) == BitAnd((multiplier * k + offset) % UsizeMod, mask)

\* the loop condition written `i <= self.items.len()`
InBounds_OffByOne(its, k) == k <= Len(its)

\* the loop condition `i < self.items.len()`
InBounds(its, k) == k < Len(its)

\* what an unchecked read of its[k] can yield: the element, or anything at all
\* when k is past the end
get_unchecked(its, k) == IF k < Len(its) THEN {At(its, k)} ELSE Vals \cup {Uninit}

\* the comparison written `x.borrow() < items[i]`
GoesLeft_Strict(q, e) == q < e

\* `x.borrow() <= items[i]`, the comparison that selects the left child
GoesLeft(q, e) == q <= e

\* the children taken as `2 * i` and `2 * i + 1`, as in a 1-based layout
NextCursor_OneBased(q, e, k) ==
    IF GoesLeft(q, e) THEN (2 * k) % UsizeMod ELSE LeftChild(k)

\* the cursor after comparing q with the element e read at cursor k
NextCursor(q, e, k) == IF GoesLeft(q, e) THEN LeftChild(k) ELSE RightChild(k)

\* the shift of RecoverJ without its `+ 1`
RecoverJ_ShiftShort(k) ==
    LET k1 == (k + 1) % UsizeMod
    IN  Shr(k1, trailing_zeros(Not(k1)))

\* `let j = (i + 1) >> ((!(i + 1)).trailing_zeros() + 1);`
RecoverJ(k) ==
    LET k1 == (k + 1) % UsizeMod
    IN  Shr(k1, trailing_zeros(Not(k1)) + 1)

\* the loop of find_gte run to its end from cursor k: the final cursor
RECURSIVE Descend(_, _, _)
Descend(its, q, k) ==
    IF InBounds(its, k)
    THEN Descend(its, q, NextCursor(q, CHOOSE e \in get_unchecked(its, k) : TRUE, k))
    ELSE k

\* find_gte as a function of the collection and the query (a call run alone)
find_gte(its, q) ==
    LET j == RecoverJ(Descend(its, q, 0))
    IN  IF j = 0 THEN None
        ELSE Some(j - 1, CHOOSE e \in get_unchecked(its, j - 1) : TRUE)

\* a caller enters find_gte(q): `let mut i = 0;`
Call(t, q) ==
    /\ phase = "built" /\ t \in callers
    /\ pc[t] = "idle"
    /\ pc' = [pc EXCEPT ![t] = "loop"]
    /\ x' = [x EXCEPT ![t] = q]
    /\ i' = [i EXCEPT ![t] = 0]
    /\ UNCHANGED <<pf, trail, ret, oob>>
    /\ UNCHANGED buildVars
    /\ UNCHANGED <<elemSize, callers>>

\* LoopStep with the cursor kept in one place shared by all callers
LoopStep_SharedCursor(t) ==
    /\ phase = "built" /\ t \in callers
    /\ pc[t] = "loop"
    /\ InBounds(items, i[t])
    /\ \E e \in get_unchecked(items, i[t]) :
          /\ i' = [u \in Threads |-> NextCursor(x[t], e, i[t])]
          /\ trail' = [trail EXCEPT
                          ![t] = Append(@, [node |-> i[t], left |-> GoesLeft(x[t], e)])]
    /\ pf' = [pf EXCEPT ![t] = Append(@, PrefetchOffset(i[t]))]
    /\ oob' = (oob \/ i[t] >= Len(items))
    /\ UNCHANGED <<pc, x, ret>>
    /\ UNCHANGED buildVars
    /\ UNCHANGED <<elemSize, callers>>

\* one iteration of the while loop: prefetch, compare, move the cursor
LoopStep(t) ==
    /\ phase = "built" /\ t \in callers
    /\ pc[t] = "loop"
    /\ InBounds(items, i[t])
    /\ \E e \in get_unchecked(items, i[t]) :
          /\ i' = [i EXCEPT ![t] = NextCursor(x[t], e, i[t])]
          /\ trail' = [trail EXCEPT
                          ![t] = Append(@, [node |-> i[t], left |-> GoesLeft(x[t], e)])]
    /\ pf' = [pf EXCEPT ![t] = Append(@, PrefetchOffset(i[t]))]
    /\ oob' = (oob \/ i[t] >= Len(items))
    /\ UNCHANGED <<pc, x, ret>>
    /\ UNCHANGED buildVars
    /\ UNCHANGED <<elemSize, callers>>

\* the loop is left: recover j from the cursor and return
Recover(t) ==
    /\ phase = "built" /\ t \in callers
    /\ pc[t] = "loop"
    /\ ~InBounds(items, i[t])
    /\ LET j == RecoverJ(i[t])
       IN  IF j = 0
           THEN /\ ret' = [ret EXCEPT ![t] = None]
                /\ UNCHANGED oob
           ELSE /\ \E e \in get_unchecked(items, j - 1) :
                      ret' = [ret EXCEPT ![t] = Some(j - 1, e)]
                /\ oob' = (oob \/ j - 1 >= Len(items))
    /\ pc' = [pc EXCEPT ![t] = "done"]
    /\ UNCHANGED <<x, i, pf, trail>>
    /\ UNCHANGED buildVars
    /\ UNCHANGED <<elemSize, callers>>

\* the caller has its answer; its locals are gone
Return(t) ==
    /\ phase = "built" /\ t \in callers
    /\ pc[t] = "done"
    /\ pc' = [pc EXCEPT ![t] = "idle"]
    /\ x' = [x EXCEPT ![t] = 0]
    /\ i' = [i EXCEPT ![t] = 0]
    /\ pf' = [pf EXCEPT ![t] = <<>>]
    /\ trail' = [trail EXCEPT ![t] = <<>>]
    /\ ret' = [ret EXCEPT ![t] = None]
    /\ UNCHANGED oob
    /\ UNCHANGED buildVars
    /\ UNCHANGED <<elemSize, callers>>

----------------------------------------------------------------------------
(* Specifications *)

InitWith(inputs, who) ==
    /\ src \in inputs
    /\ phase = "new"
    /\ iter = <<>>
    /\ taken = 0
    /\ v = <<>>
    /\ vlen = 0
    /\ stack = <<>>
    /\ wlog = <<>>
    /\ panicked = FALSE
    /\ items = <<>>
    /\ mask = 0
    /\ elemSize \in ElemSizes
    /\ callers = who
    /\ pc = [t \in Threads |-> "idle"]
    /\ x = [t \in Threads |-> 0]
    /\ i = [t \in Threads |-> 0]
    /\ pf = [t \in Threads |-> <<>>]
    /\ trail = [t \in Threads |-> <<>>]
    /\ ret = [t \in Threads |-> None]
    /\ oob = FALSE

IsSorted(s) == \A k \in 1..(Len(s) - 1) : s[k] <= s[k + 1]

\* the non-decreasing sequences of exactly len elements
RECURSIVE SortedSeqsOfLen(_)
SortedSeqsOfLen(len) ==
    IF len = 0 THEN {<<>>}
    ELSE {Append(p[1], p[2]) :
             p \in {q \in SortedSeqsOfLen(len - 1) \X Vals :
                        q[1] = <<>> \/ q[2] >= q[1][Len(q[1])]}}

SortedSeqsUpTo(len) == UNION {SortedSeqsOfLen(k) : k \in 0..len}

\* one caller, any input order, vectors of up to MaxN elements
Init == InitWith(SeqsUpTo(MaxN), {"t1"})

\* one caller, non-decreasing vectors of up to MaxSortedN elements
InitSorted == InitWith(SortedSeqsUpTo(MaxSortedN), {"t1"})

\* two callers on the same instance, vectors of up to MaxNConc elements
InitConcurrent == InitWith(SeqsUpTo(MaxNConc), Threads)

\* one caller, any input order, vectors of up to MaxNLive elements
InitLive == InitWith(SeqsUpTo(MaxNLive), {"t1"})

Next ==
    \/ From
    \/ FromSortedIter
    \/ WalkReturn
    \/ WalkLeft
    \/ WalkPut
    \/ WalkExit
    \/ SetLen
    \/ \E t \in Threads, q \in Queries : Call(t, q)
    \/ \E t \in Threads : LoopStep(t)
    \/ \E t \in Threads : Recover(t)
    \/ \E t \in Threads : Return(t)

Spec == Init /\ [][Next]_vars

SpecSorted == InitSorted /\ [][Next]_vars

SpecConcurrent == InitConcurrent /\ [][Next]_vars

\* a caller inside find_gte keeps running: its loop iteration and its return
\* are taken when they stay possible
SpecLive ==
    /\ InitLive
    /\ [][Next]_vars
    /\ \A t \in Threads : WF_vars(LoopStep(t)) /\ WF_vars(Recover(t))

----------------------------------------------------------------------------
(* Properties *)

Range(s) == {s[k] : k \in 1..Len(s)}

SetMin(S) == CHOOSE m \in S : \A e \in S : m <= e

Done(t) == t \in callers /\ pc[t] = "done"

Built == phase = "built"

\* the stored elements that are >= q
AtLeast(q) == {e \in Range(iter) : e >= q}

\* C1: on a collection built from a non-decreasing sequence, find_gte(x) returns
\* a stored element equal to the least element >= x, and None when there is none
C1_FindGteIsSuccessor ==
    \A t \in Threads :
        (Done(t) /\ IsSorted(iter)) =>
            IF AtLeast(x[t]) = {}
            THEN ret[t] = None
            ELSE /\ ret[t].some
                 /\ ret[t].val = SetMin(AtLeast(x[t]))
                 /\ ret[t].idx < Len(items)
                 /\ At(items, ret[t].idx) = ret[t].val

\* a query strictly between two stored values of a 9-element collection with a
\* repeated value has been answered
C1_Witness ==
    \E t \in Threads :
        /\ Done(t) /\ IsSorted(iter)
        /\ Len(items) = 9
        /\ Cardinality(Range(iter)) < Len(iter)
        /\ ret[t].some /\ ret[t].val > x[t]
        /\ \E e \in Range(iter) : e < x[t]

RECURSIVE InOrder(_, _)
InOrder(its, k) ==
    IF k >= Len(its) THEN <<>>
    ELSE InOrder(its, 2 * k + 1) \o <<At(its, k)>> \o InOrder(its, 2 * k + 2)

\* the indices < n of the subtree rooted at index k
RECURSIVE Subtree(_, _)
Subtree(n, k) ==
    IF k >= n THEN {} ELSE {k} \cup Subtree(n, 2 * k + 1) \cup Subtree(n, 2 * k + 2)

Count(s, e) == Cardinality({k \in 1..Len(s) : s[k] = e})

SameBag(s, u) == \A e \in Range(s) \cup Range(u) : Count(s, e) = Count(u, e)

\* C2: after from_sorted_iter on a non-decreasing sequence of n elements, items
\* has n elements, is a permutation of the input, its in-order traversal is the
\* input, and every node is >= its left subtree and <= its right subtree
C2_EytzingerLayout ==
    (Built /\ IsSorted(iter)) =>
        /\ Len(items) = Len(iter)
        /\ vlen = Len(iter)
        /\ SameBag(items, iter)
        /\ InOrder(items, 0) = iter
        /\ \A k \in 0..(Len(items) - 1) :
              /\ \A l \in Subtree(Len(items), 2 * k + 1) : At(items, l) <= At(items, k)
              /\ \A r \in Subtree(Len(items), 2 * k + 2) : At(items, r) >= At(items, k)

\* a 9-element collection with a repeated value and two different values is built
C2_Witness ==
    /\ Built /\ IsSorted(iter)
    /\ Len(items) = 9
    /\ Cardinality(Range(iter)) > 1
    /\ Cardinality(Range(iter)) < Len(iter)
    /\ items # iter

\* C3: whatever the input order, find_gte reads only indices < n in its loop,
\* the recovered index j - 1 is < n whenever j # 0, and the result is None or a
\* stored element; no read past the end happens
C3_FindGteInBounds ==
    /\ ~oob
    /\ \A t \in Threads :
          /\ \A k \in 1..Len(trail[t]) : trail[t][k].node < Len(items)
          /\ (t \in callers /\ pc[t] = "loop" /\ ~InBounds(items, i[t])
                 /\ RecoverJ(i[t]) # 0) => RecoverJ(i[t]) - 1 < Len(items)
          /\ Done(t) =>
                \/ ret[t] = None
                \/ /\ ret[t].some
                   /\ ret[t].idx < Len(items)
                   /\ ret[t].val = At(items, ret[t].idx)

\* a query on a collection built from an unsorted 5-element input has returned
\* an element after three comparisons
C3_Witness ==
    \E t \in Threads :
        /\ Done(t) /\ ~IsSorted(iter)
        /\ Len(items) = 5
        /\ Len(trail[t]) = 3
        /\ ret[t].some

\* C4: on a collection built from a non-decreasing sequence, find_gte(a) for a
\* stored value a returns an element equal to a, repeated values included
C4_ExactOnMembers ==
    \A t \in Threads :
        (Done(t) /\ IsSorted(iter) /\ x[t] \in Range(iter)) =>
            /\ ret[t].some
            /\ ret[t].val = x[t]

\* a stored value that occurs at least twice in a 9-element collection was queried
C4_Witness ==
    \E t \in Threads :
        /\ Done(t) /\ IsSorted(iter)
        /\ Len(items) = 9
        /\ Count(iter, x[t]) >= 2
        /\ ret[t].some

\* C5: on an empty collection find_gte returns None for every query: the loop
\* body never runs, the cursor stays 0 and the recovered j is 0
C5_EmptyIsNone ==
    \A t \in Threads :
        (Built /\ Len(items) = 0 /\ t \in callers) =>
            /\ trail[t] = <<>>
            /\ i[t] = 0
            /\ RecoverJ(i[t]) = 0
            /\ ret[t] = None

\* a query larger than 0 on the empty collection has returned
C5_Witness ==
    \E t \in Threads :
        /\ Done(t) /\ Len(items) = 0 /\ Len(iter) = 0
        /\ x[t] > 0

\* C6 as amended: on a correctly built collection, for x1 <= x2, when both results
\* are present find_gte(x1) <= find_gte(x2), and find_gte(x1) is not found only
\* if find_gte(x2) is not found too
C6_Monotone ==
    \A t \in Threads :
        (Done(t) /\ IsSorted(iter)) =>
            \A q \in Queries :
                LET r == find_gte(items, q)
                IN  /\ x[t] <= q =>
                          /\ (ret[t].some /\ r.some) => ret[t].val <= r.val
                          /\ ~ret[t].some => ~r.some
                    /\ q <= x[t] =>
                          /\ (r.some /\ ret[t].some) => r.val <= ret[t].val
                          /\ ~r.some => ~ret[t].some

\* C6 as stated: ... and find_gte(x2) is not found only if find_gte(x1) is not
\* found too
C6_AsStated ==
    \A t \in Threads :
        (Done(t) /\ IsSorted(iter)) =>
            \A q \in Queries :
                LET r == find_gte(items, q)
                IN  /\ x[t] <= q =>
                          /\ (ret[t].some /\ r.some) => ret[t].val <= r.val
                          /\ ~r.some => ~ret[t].some
                    /\ q <= x[t] =>
                          /\ (r.some /\ ret[t].some) => r.val <= ret[t].val
                          /\ ~ret[t].some => ~r.some

\* on a 9-element collection a query was answered with an element while a larger
\* query has no answer and a smaller one has a smaller answer
C6_Witness ==
    \E t \in Threads :
        /\ Done(t) /\ IsSorted(iter)
        /\ Len(items) = 9
        /\ ret[t].some
        /\ \E q \in Queries : q > x[t] /\ ~find_gte(items, q).some
        /\ \E q \in Queries : q < x[t] /\ find_gte(items, q).val < ret[t].val

\* C7: find_gte never changes the collection, and under any interleaving of the
\* callers of one instance each call returns what it returns when run alone
C7_ReadOnlyAndIsolated ==
    /\ [](\A t \in Threads : Done(t) => ret[t] = find_gte(items, x[t]))
    /\ [][Built => (items' = items /\ mask' = mask /\ vlen' = vlen)]_vars

\* one caller has its answer while the other, with another query, is inside the
\* loop at a different cursor
C7_Witness ==
    \E t, u \in Threads :
        /\ t # u
        /\ Done(t) /\ ret[t].some /\ Len(trail[t]) >= 2
        /\ u \in callers /\ pc[u] = "loop" /\ Len(trail[u]) >= 1
        /\ x[t] # x[u]
        /\ i[t] # i[u]

\* C8 as stated: every prefetch offset (multiplier * i + offset) & mask is < n
C8_PrefetchInRange ==
    \A t \in Threads :
        \A k \in 1..Len(pf[t]) : pf[t][k] < Len(items)

\* the values 2^k - 1 of a usize
AllOnes == {Pow2(k) - 1 : k \in 0..(UsizeBits - 1)}

\* C9: the mask from_sorted_iter computes is the smallest 2^k - 1 that is >= n
C9_MaskIsSmallestAllOnes ==
    Built =>
        /\ mask \in AllOnes
        /\ mask >= Len(items)
        /\ \A m \in AllOnes : m >= Len(items) => mask <= m

\* a collection of 8 elements (a power of two) got the mask 15
C9_Witness ==
    /\ Built
    /\ Len(items) = 8
    /\ mask = 15

SetMax(S) == CHOOSE m \in S : \A e \in S : m >= e

\* the positions of the trail at which the descent moved left
LeftMoves(t) == {k \in 1..Len(trail[t]) : trail[t][k].left}

\* C10: for the final cursor i, j = (i+1) >> (trailing_zeros(!(i+1)) + 1) is 0
\* exactly when the descent never moved left, and otherwise j - 1 is the last
\* node at which it moved left; the returned element is that node's
C10_BitTrickIsLastLeft ==
    \A t \in Threads :
        (t \in callers /\ pc[t] \in {"loop", "done"} /\ ~InBounds(items, i[t])) =>
            /\ IF LeftMoves(t) = {}
               THEN RecoverJ(i[t]) = 0
               ELSE RecoverJ(i[t]) - 1 = trail[t][SetMax(LeftMoves(t))].node
            /\ Done(t) =>
                  IF LeftMoves(t) = {}
                  THEN ret[t] = None
                  ELSE /\ ret[t].some
                       /\ ret[t].idx = trail[t][SetMax(LeftMoves(t))].node

\* on an unsorted 5-element collection a descent of three comparisons moved left
\* and afterwards right, and returned
C10_Witness ==
    \E t \in Threads :
        /\ Done(t) /\ ~IsSorted(iter)
        /\ Len(items) = 5
        /\ Len(trail[t]) = 3
        /\ trail[t][2].left /\ ~trail[t][3].left

\* the place in the write order at which position k was written (0 if never)
WrittenAt(k) ==
    IF \E a \in 1..Len(wlog) : wlog[a] = k
    THEN CHOOSE a \in 1..Len(wlog) : wlog[a] = k
    ELSE 0

\* eytzinger_walk(v, iter, 0) has returned and set_len has not run yet
WalkReturned == phase = "walk" /\ stack = <<>> /\ ~panicked

\* C11: with capacity equal to the iterator's length n, eytzinger_walk writes
\* every position 0..n-1 exactly once and none >= n, takes exactly n elements
\* (unwrap never fails), writes a node after its whole left subtree and before
\* its right subtree, and leaves the length alone; set_len(n) comes afterwards
C11_WalkWritesEachOnce ==
    (phase # "new" /\ capacity(v) = Len(iter)) =>
        /\ ~panicked
        /\ taken = Len(wlog)
        /\ taken <= Len(iter)
        /\ \A a \in 1..Len(wlog) : wlog[a] < Len(iter)
        /\ \A a, b \in 1..Len(wlog) : a # b => wlog[a] # wlog[b]
        /\ \A k \in 0..(Len(iter) - 1) :
              /\ WrittenAt(k) # 0 =>
                    \A l \in Subtree(Len(iter), 2 * k + 1) :
                        WrittenAt(l) # 0 /\ WrittenAt(l) < WrittenAt(k)
              /\ \A r \in Subtree(Len(iter), 2 * k + 2) :
                    WrittenAt(r) # 0 => (WrittenAt(k) # 0 /\ WrittenAt(k) < WrittenAt(r))
        /\ phase = "walk" => vlen = 0
        /\ (WalkReturned \/ Built) =>
              /\ taken = Len(iter)
              /\ {wlog[a] : a \in 1..Len(wlog)} = 0..(Len(iter) - 1)
              /\ \A k \in 1..Len(v) : v[k] # Uninit
        /\ Built => vlen = Len(iter)

\* the walk over a 9-slot buffer has returned with all 9 elements taken, the
\* root written sixth, and the length still 0
C11_Witness ==
    /\ WalkReturned
    /\ capacity(v) = 9
    /\ taken = 9
    /\ WrittenAt(0) = 6
    /\ vlen = 0

\* floor(log2 m) for m >= 1
RECURSIVE Log2Floor(_)
Log2Floor(m) == IF m <= 1 THEN 0 ELSE 1 + Log2Floor(m \div 2)

\* the most comparisons a descent over n elements can make
MaxComparisons(n) == IF n = 0 THEN 0 ELSE Log2Floor(n) + 1

\* the cursor has left the array
CursorOut(t) == t \in callers /\ pc[t] \in {"loop", "done"} /\ ~InBounds(items, i[t])

\* C12: the descent of find_gte terminates: every step moves the cursor to a
\* strictly larger index, the cursor leaves the array after at most
\* floor(log2 n) + 1 comparisons (none for n = 0), and the loop never stops
\* early: it ends only with the cursor outside the array, after at least
\* floor(log2(n + 1)) comparisons, also when an element equal to x was met
C12_DescentTerminates ==
    /\ [](\A t \in Threads :
            /\ Len(trail[t]) <= MaxComparisons(Len(items))
            /\ \A k \in 1..Len(trail[t]) :
                  trail[t][k].node < (IF k < Len(trail[t])
                                      THEN trail[t][k + 1].node ELSE i[t])
            /\ Done(t) => CursorOut(t)
            /\ CursorOut(t) => Len(trail[t]) >= Log2Floor(Len(items) + 1))
    /\ [][\A t \in Threads :
            (pc[t] = "loop" /\ trail'[t] # trail[t]) =>
                (i'[t] > i[t] /\ Len(trail'[t]) = Len(trail[t]) + 1)]_vars
    /\ \A t \in Threads : (t \in callers /\ pc[t] = "loop") ~> (pc[t] = "done")

\* on a 4-element collection a descent that met an element equal to the query
\* at the root went on for three comparisons before it returned
C12_Witness ==
    \E t \in Threads :
        /\ Done(t)
        /\ Len(items) = 4
        /\ At(items, 0) = x[t]
        /\ Len(trail[t]) = 3
        /\ i[t] >= Len(items)

====
